---- MODULE Spec2Model ----
(***************************************************************************)
(* A model of the runlogger package: the emission methods of Logger, the   *)
(* formatting done by fmt and encoding/json on their behalf, the size      *)
(* guard of writeLog and the Field values attached to a record.            *)
(*                                                                         *)
(* The repository holds four revisions of the logger; `ver` names the one  *)
(* the running program was built from:                                     *)
(*   "main"   src/main.go              (message + obj, size guard)         *)
(*   "fields" src/unnamed/part_000     (Field values, size guard)          *)
(*   "cloud"  src/unnamed/part_001:1   (CloudRunLogger, writeJson)         *)
(*   "early"  src/unnamed/part_001:264 (StructuredLogger, writeJson)       *)
(***************************************************************************)
EXTENDS Integers, Sequences, FiniteSets, TLC

(***************************************************************************)
(* Text.  A Go string is a sequence of chunks [c, n, w]: the string c      *)
(* written n times, every rune of it w bytes wide.  A chunk with n > 1 or  *)
(* w > 1 holds a single rune, so a 100 KiB message of one repeated rune    *)
(* is one chunk.  The empty string is <<>>.                                *)
(***************************************************************************)
Str(c) == IF c = "" THEN <<>> ELSE <<[c |-> c, n |-> 1, w |-> 1]>>

Run(c, n) == IF n <= 0 THEN <<>> ELSE <<[c |-> c, n |-> n, w |-> 1]>>

\* n runes of three bytes each
WideRun(n) == IF n <= 0 THEN <<>> ELSE <<[c |-> "U", n |-> n, w |-> 3]>>

Cat(a, b) ==
  IF a = <<>> THEN b
  ELSE IF b = <<>> THEN a
  ELSE LET x == a[Len(a)]
           y == b[1]
       IN IF x.w = y.w /\ x.c = y.c /\ Len(x.c) = 1
          THEN SubSeq(a, 1, Len(a) - 1)
               \o <<[c |-> x.c, n |-> x.n + y.n, w |-> x.w]>> \o Tail(b)
          ELSE IF x.w = 1 /\ y.w = 1 /\ x.n = 1 /\ y.n = 1
               THEN SubSeq(a, 1, Len(a) - 1)
                    \o <<[c |-> x.c \o y.c, n |-> 1, w |-> 1]>> \o Tail(b)
               ELSE a \o b

RECURSIVE CatAll(_)
CatAll(ss) == IF ss = <<>> THEN <<>> ELSE Cat(ss[1], CatAll(Tail(ss)))

ChunkRunes(r) == Len(r.c) * r.n

\* Sums and slices split the sequence in halves, which keeps the nesting of
\* the evaluation logarithmic in its length.
RECURSIVE ByteLenIn(_, _, _)
ByteLenIn(s, lo, hi) ==
  IF lo > hi THEN 0
  ELSE IF lo = hi THEN ChunkRunes(s[lo]) * s[lo].w
       ELSE LET mid == (lo + hi) \div 2
            IN ByteLenIn(s, lo, mid) + ByteLenIn(s, mid + 1, hi)

\* len(s): the bytes of s
ByteLen(s) == ByteLenIn(s, 1, Len(s))

RECURSIVE RuneLenIn(_, _, _)
RuneLenIn(s, lo, hi) ==
  IF lo > hi THEN 0
  ELSE IF lo = hi THEN ChunkRunes(s[lo])
       ELSE LET mid == (lo + hi) \div 2
            IN RuneLenIn(s, lo, mid) + RuneLenIn(s, mid + 1, hi)

RuneLen(s) == RuneLenIn(s, 1, Len(s))

\* The first k runes of one chunk, 0 < k.
TakeChunk(r, k) ==
  IF k >= ChunkRunes(r) THEN <<r>>
  ELSE IF r.n > 1 THEN <<[r EXCEPT !.n = k]>>
       ELSE <<[r EXCEPT !.c = SubSeq(r.c, 1, k)]>>

\* The first k runes of s[lo..hi].
RECURSIVE TakeRunesIn(_, _, _, _)
TakeRunesIn(s, lo, hi, k) ==
  IF lo > hi \/ k <= 0 THEN <<>>
  ELSE IF lo = hi THEN TakeChunk(s[lo], k)
       ELSE LET mid == (lo + hi) \div 2
                left == RuneLenIn(s, lo, mid)
            IN IF left >= k THEN TakeRunesIn(s, lo, mid, k)
               ELSE SubSeq(s, lo, mid) \o TakeRunesIn(s, mid + 1, hi, k - left)

\* The first k runes of s (fmt's precision on %s counts runes).
TakeRunes(s, k) == TakeRunesIn(s, 1, Len(s), k)

RECURSIVE Repeat(_, _)
Repeat(s, n) == IF n <= 0 THEN <<>> ELSE Cat(s, Repeat(s, n - 1))

\* A short text as one string (a run is spelled out).
RECURSIVE Spell(_, _)
Spell(c, n) == IF n <= 0 THEN "" ELSE c \o Spell(c, n - 1)

RECURSIVE Flat(_)
Flat(s) ==
  IF s = <<>> THEN "" ELSE Spell(s[1].c, s[1].n) \o Flat(Tail(s))

IsSpace(c) == c \in {" ", "\n", "\t", "\r"}

FirstRune(r) == SubSeq(r.c, 1, 1)
LastRune(r) == SubSeq(r.c, Len(r.c), Len(r.c))

\* strings.TrimSpace: leading and trailing white space removed.
RECURSIVE TrimLeft(_)
TrimLeft(s) ==
  IF s = <<>> \/ s[1].w # 1 \/ ~IsSpace(FirstRune(s[1])) THEN s
  ELSE IF s[1].n > 1 \/ Len(s[1].c) = 1 THEN TrimLeft(Tail(s))
       ELSE TrimLeft(<<[s[1] EXCEPT !.c = SubSeq(@, 2, Len(@))]>> \o Tail(s))

RECURSIVE TrimRight(_)
TrimRight(s) ==
  LET k == Len(s)
  IN IF s = <<>> \/ s[k].w # 1 \/ ~IsSpace(LastRune(s[k])) THEN s
     ELSE IF s[k].n > 1 \/ Len(s[k].c) = 1 THEN TrimRight(SubSeq(s, 1, k - 1))
          ELSE TrimRight(SubSeq(s, 1, k - 1)
                         \o <<[s[k] EXCEPT !.c = SubSeq(@, 1, Len(@) - 1)]>>)

TrimSpace(s) == TrimRight(TrimLeft(s))

\* strconv.Itoa, for n >= 0
RECURSIVE Itoa(_)
Itoa(n) ==
  IF n < 10 THEN SubSeq("0123456789", n + 1, n + 1)
  ELSE Itoa(n \div 10) \o SubSeq("0123456789", (n % 10) + 1, (n % 10) + 1)

(***************************************************************************)
(* Values.  An operand of a call is a string, an int, a []byte, nil, a     *)
(* chan, an error or a *Field (p: its place in the heap); s is the text    *)
(* %v shows for it.                                                        *)
(***************************************************************************)
StrVal(s) == [t |-> "string", s |-> s]
IntVal(s) == [t |-> "int", s |-> s]
BytesVal(s) == [t |-> "bytes", s |-> s]
FieldPtr(p) == [t |-> "field", p |-> p]
NilVal == [t |-> "nil", s |-> Str("<nil>")]
ChanVal == [t |-> "chan", s |-> Str("0xc0")]
ErrVal(s) == [t |-> "error", s |-> s]

TypeName(v) ==
  CASE v.t = "string" -> Str("string")
    [] v.t = "int" -> Str("int")
    [] v.t = "bytes" -> Str("[]uint8")
    [] v.t = "chan" -> Str("chan int")
    [] v.t = "error" -> Str("*json.UnsupportedTypeError")
    [] OTHER -> Str("nil")

Show(v) == v.s

\* fmt.Sprintln: the operands separated by a space, then a newline.
RECURSIVE SprintlnFrom(_, _)
SprintlnFrom(v, i) ==
  IF i > Len(v) THEN Str("\n")
  ELSE Cat(IF i > 1 THEN Str(" ") ELSE <<>>,
           Cat(Show(v[i]), SprintlnFrom(v, i + 1)))

Sprintln(v) == SprintlnFrom(v, 1)

\* fmt.Sprint: a space goes between two operands when neither is a string.
RECURSIVE SprintFrom(_, _)
SprintFrom(v, i) ==
  IF i > Len(v) THEN <<>>
  ELSE Cat(IF i > 1 /\ v[i - 1].t # "string" /\ v[i].t # "string"
           THEN Str(" ") ELSE <<>>,
           Cat(Show(v[i]), SprintFrom(v, i + 1)))

Sprint(v) == SprintFrom(v, 1)

(***************************************************************************)
(* fmt.Sprintf.  A format is a sequence of items: [k |-> "lit", s] is      *)
(* literal text, [k |-> "verb", v, prec] is %v, %s, %d or %.<prec>s        *)
(* (prec = -1: none), [k |-> "noverb"] is a % that ends the format.        *)
(***************************************************************************)
LitItem(c) == [k |-> "lit", s |-> Str(c)]
Verb(v) == [k |-> "verb", v |-> v, prec |-> -1]
VerbPrec(v, p) == [k |-> "verb", v |-> v, prec |-> p]
NoVerb == [k |-> "noverb"]

BadVerb(verb, a) ==
  CatAll(<<Str("%!" \o verb \o "("), TypeName(a), Str("="), Show(a),
           Str(")")>>)

FormatArg(item, a) ==
  CASE item.v = "v" -> Show(a)
    [] item.v = "s" ->
         IF a.t \in {"string", "bytes", "error"}
         THEN IF item.prec >= 0 THEN TakeRunes(a.s, item.prec) ELSE a.s
         ELSE BadVerb("s", a)
    [] item.v = "d" -> IF a.t = "int" THEN a.s ELSE BadVerb("d", a)
    [] OTHER -> Show(a)

Missing(item) == Str("%!" \o item.v \o "(MISSING)")

RECURSIVE ExtraList(_, _)
ExtraList(a, i) ==
  IF i > Len(a) THEN <<>>
  ELSE CatAll(<<TypeName(a[i]), Str("="), Show(a[i]),
                IF i < Len(a) THEN Str(", ") ELSE <<>>,
                ExtraList(a, i + 1)>>)

\* i: the next item of the format, n: the next operand.
RECURSIVE SprintfFrom(_, _, _, _)
SprintfFrom(format, a, i, n) ==
  IF i > Len(format)
  THEN IF n <= Len(a)
       THEN CatAll(<<Str("%!(EXTRA "), ExtraList(a, n), Str(")")>>)
       ELSE <<>>
  ELSE LET item == format[i] IN
       CASE item.k = "lit" -> Cat(item.s, SprintfFrom(format, a, i + 1, n))
         [] item.k = "noverb" ->
              Cat(Str("%!(NOVERB)"), SprintfFrom(format, a, i + 1, n))
         [] OTHER ->
              IF n > Len(a)
              THEN Cat(Missing(item), SprintfFrom(format, a, i + 1, n))
              ELSE Cat(FormatArg(item, a[n]),
                       SprintfFrom(format, a, i + 1, n + 1))

Sprintf(format, a) == SprintfFrom(format, a, 1, 1)

(***************************************************************************)
(* encoding/json.  A value to marshal is a string, an int, nil, a chan     *)
(* (which json refuses), a struct (members in declaration order, each      *)
(* with its omitempty flag), a map (members sorted by key, as the encoder  *)
(* sorts them) or an array.  Marshal answers [err, text].                  *)
(***************************************************************************)
StructVal(m) == [t |-> "struct", m |-> m]
MapVal(m) == [t |-> "map", m |-> m]
ArrayVal(e) == [t |-> "array", e |-> e]
Member(k, v, omitempty) == [key |-> k, val |-> v, omitempty |-> omitempty]

\* A value held in an interface{}: nil, or a value of some dynamic type
\* (which omitempty keeps even when it is "" or an empty map).
IfaceVal(v) == IF v = NilVal THEN NilVal ELSE [t |-> "iface", v |-> v]

\* The runes json does not copy as they are.
Escaped == {"\\", "\"", "\n", "\t", "<", ">", "&"}

\* encodeState.string with escapeHTML, which Marshal and Encoder both set.
EscapeRune(c) ==
  CASE c = "\\" -> "\\\\"
    [] c = "\"" -> "\\\""
    [] c = "\n" -> "\\n"
    [] c = "\t" -> "\\t"
    [] c = "<" -> "\\u003c"
    [] c = ">" -> "\\u003e"
    [] c = "&" -> "\\u0026"
    [] OTHER -> c

RECURSIVE EscapeStrIn(_, _, _)
EscapeStrIn(c, lo, hi) ==
  IF lo > hi THEN ""
  ELSE IF lo = hi THEN EscapeRune(SubSeq(c, lo, lo))
       ELSE LET mid == (lo + hi) \div 2
            IN EscapeStrIn(c, lo, mid) \o EscapeStrIn(c, mid + 1, hi)

EscapeStr(c) ==
  IF \A i \in 1..Len(c) : SubSeq(c, i, i) \notin Escaped THEN c
  ELSE EscapeStrIn(c, 1, Len(c))

EscapeChunk(r) ==
  IF r.w # 1 THEN <<r>>
  ELSE IF r.n = 1 THEN Str(EscapeStr(r.c))
       ELSE IF r.c = "\\" THEN Run("\\", 2 * r.n)
            ELSE IF r.c \in Escaped THEN Repeat(Str(EscapeRune(r.c)), r.n)
                 ELSE <<r>>

RECURSIVE EscapeIn(_, _, _)
EscapeIn(s, lo, hi) ==
  IF lo > hi THEN <<>>
  ELSE IF lo = hi THEN EscapeChunk(s[lo])
       ELSE LET mid == (lo + hi) \div 2
            IN Cat(EscapeIn(s, lo, mid), EscapeIn(s, mid + 1, hi))

EscapeJSON(s) == EscapeIn(s, 1, Len(s))

Quoted(s) == CatAll(<<Str("\""), EscapeJSON(s), Str("\"")>>)

\* isEmptyValue: what omitempty leaves out.
IsEmptyValue(v) ==
  \/ v.t = "nil"
  \/ v.t = "string" /\ v.s = <<>>
  \/ v.t = "map" /\ v.m = <<>>
  \/ v.t = "array" /\ v.e = <<>>

\* The members of a struct that reach the output.
Emitted(m) ==
  SelectSeq(m, LAMBDA x : ~(x.omitempty /\ IsEmptyValue(x.val)))

RECURSIVE MarshalVal(_)
RECURSIVE MarshalMembers(_, _)
RECURSIVE MarshalElems(_, _)

MarshalMembers(m, i) ==
  IF i > Len(m) THEN [err |-> FALSE, text |-> <<>>]
  ELSE LET v == MarshalVal(m[i].val)
           rest == MarshalMembers(m, i + 1)
       IN IF v.err \/ rest.err THEN [err |-> TRUE, text |-> <<>>]
          ELSE [err |-> FALSE,
                text |-> CatAll(<<IF i > 1 THEN Str(",") ELSE <<>>,
                                  Quoted(Str(m[i].key)), Str(":"), v.text,
                                  rest.text>>)]

MarshalElems(e, i) ==
  IF i > Len(e) THEN [err |-> FALSE, text |-> <<>>]
  ELSE LET v == MarshalVal(e[i])
           rest == MarshalElems(e, i + 1)
       IN IF v.err \/ rest.err THEN [err |-> TRUE, text |-> <<>>]
          ELSE [err |-> FALSE,
                text |-> CatAll(<<IF i > 1 THEN Str(",") ELSE <<>>,
                                  v.text, rest.text>>)]

MarshalVal(v) ==
  CASE v.t = "string" -> [err |-> FALSE, text |-> Quoted(v.s)]
    [] v.t = "int" -> [err |-> FALSE, text |-> v.s]
    [] v.t = "nil" -> [err |-> FALSE, text |-> Str("null")]
    [] v.t = "chan" -> [err |-> TRUE, text |-> <<>>]
    [] v.t = "iface" -> MarshalVal(v.v)
    [] v.t \in {"struct", "map"} ->
         LET r == MarshalMembers(IF v.t = "struct" THEN Emitted(v.m) ELSE v.m, 1)
         IN IF r.err THEN r
            ELSE [err |-> FALSE,
                  text |-> CatAll(<<Str("{"), r.text, Str("}")>>)]
    [] v.t = "array" ->
         LET r == MarshalElems(v.e, 1)
         IN IF r.err THEN r
            ELSE [err |-> FALSE,
                  text |-> CatAll(<<Str("["), r.text, Str("]")>>)]
    [] OTHER -> [err |-> TRUE, text |-> <<>>]

Marshal(v) == MarshalVal(v)

(***************************************************************************)
(* The logger's constants and types.                                       *)
(***************************************************************************)
\* type severety and its nine constants; a severity's text is its name
Severities ==
  {"DEFAULT", "DEBUG", "INFO", "NOTICE", "WARNING", "ERROR", "CRITICAL",
   "ALERT", "EMERGENCY"}

\* The severities that have emission methods: Debug .. Emergency (no
\* method emits default_severety).
MethodSeverities == Severities \ {"DEFAULT"}

\* The severities writeLog's switch names.
ErrorSeverities == {"ERROR", "CRITICAL", "ALERT", "EMERGENCY"}

maxSize == 102400

\* The precision of %.100000s in the size guard's format.
excerptPrecision == 100000

errorMessageType ==
  "type.googleapis.com/google.devtools.clouderrorreporting.v1beta1.ReportedErrorEvent"

(***************************************************************************)
(* The call stack.  A frame is [fn, file, line]: the function, its source  *)
(* file and the line it is executing.  runtime.Caller(skip) answers the    *)
(* frame skip levels above the running one.                                *)
(***************************************************************************)
Frame(fn, file, line) == [fn |-> fn, file |-> file, line |-> line]

\* runtime.FuncForPC(pc).Name() of a frame
FuncName(fn) ==
  IF fn \in {"main.main", "db.Open"} THEN fn
  ELSE "github.com/karl-gustav/runlogger.(*Logger)." \o fn

UserFile == "/app/main.go"

LibFile == "/go/pkg/mod/runlogger/main.go"

UserFrame == Frame("main.main", UserFile, 10)

\* A function of another package of the program, in a directory of its own.
PkgFile == "/app/db/db.go"

PkgFrame == Frame("db.Open", PkgFile, 20)

Caller(stack, skip) == stack[Len(stack) - skip]

(***************************************************************************)
(* Path relativization.  A path is a string.                               *)
(***************************************************************************)
HasPrefix(s, prefix) ==
  /\ Len(prefix) <= Len(s)
  /\ SubSeq(s, 1, Len(prefix)) = prefix

\* The place of the last "/" of path[1..i], 0 when there is none.
RECURSIVE LastSlash(_, _)
LastSlash(path, i) ==
  IF i = 0 \/ SubSeq(path, i, i) = "/" THEN i ELSE LastSlash(path, i - 1)

\* filepath.Dir of a clean path: all but the last element.
Dir(path) ==
  LET i == LastSlash(path, Len(path))
  IN IF i = 0 THEN "."
     ELSE IF i = 1 THEN "/"
          ELSE SubSeq(path, 1, i - 1)

\* setPrefixPath: the directory of the constructor's caller, plus "/".
setPrefixPath(stack) == Dir(Caller(stack, 2).file) \o "/"

\* relative without the strip: the path as runtime.Caller reported it.
relativeUnchanged(path, prefix) == path

relative(path, prefix) ==
  IF HasPrefix(path, prefix)
  THEN SubSeq(path, Len(prefix) + 1, Len(path)) ELSE path

(***************************************************************************)
(* The state of a running program.                                         *)
(***************************************************************************)
VARIABLES
  ver,         \* the revision of the logger the program is built from
  l,           \* the program's *Logger: nil, or a logger
  kService,    \* the K_SERVICE environment variable
  prefixPath,  \* the package variable prefixPath
  heap,        \* the Field objects made by Logger.Field, by address
  pc,          \* "idle": the program runs its own code; "returned": a public
               \* call has just returned; "Errorf": a call is inside the size
               \* guard; "panicked", "overflow": the process has died
  inv,         \* the writeLog call the size guard is about to make
  call,        \* the public call in progress, or the last one
  written,     \* the lines that call has written, in order
  ctor         \* the last constructor call: what it fetched, its error

vars == <<ver, l, kService, prefixPath, heap, pc, inv, call, written, ctor>>

Versions == {"main", "fields", "cloud", "early"}

\* The revisions whose writeLog has the size guard and the nil-logger
\* branch on os.Stderr.
Guarded == {"main", "fields"}

NilLogger == [nil |-> TRUE, logName |-> <<>>, resource |-> NilVal]
StructLogger == [nil |-> FALSE, logName |-> <<>>, resource |-> NilVal]

\* A public call: the method, its operands, the Fields as they were when it
\* was made, and whether its own record met the size guard.
NoCall == [op |-> "none", sev |-> "DEFAULT", format |-> <<>>, v |-> <<>>,
           message |-> <<>>, obj |-> NilVal, heap |-> <<>>,
           oversized |-> FALSE]
NoInv == [severety |-> "DEFAULT", message |-> <<>>, stack |-> <<>>]
NoCtor == [name |-> "none", fetched |-> <<>>, status |-> <<>>, err |-> FALSE]

(***************************************************************************)
(* writeLog.  A written line is recorded with the stream it went to, its   *)
(* form, the record it renders (severity, message, the document handed to  *)
(* json, the frame reported as its source location) and its bytes.         *)
(* writeLog answers the lines written, the heap it leaves and how it       *)
(* ended: "return", "panic", or "Errorf" with the call the size guard      *)
(* makes.                                                                  *)
(***************************************************************************)
Line(stream, form, severity, message, doc, loc, text) ==
  [stream |-> stream, form |-> form, severity |-> severity,
   message |-> message, doc |-> doc, loc |-> loc, text |-> text]

Result(lines, hp, next, nested) ==
  [lines |-> lines, heap |-> hp, next |-> next, inv |-> nested]

\* time.Now(), as json renders a time.Time
Now == StrVal(Str("2019-10-12T07:20:50.52Z"))

\* "%s in [%s:%d]: %s\n"
PlainFormat ==
  <<Verb("s"), LitItem(" in ["), Verb("s"), LitItem(":"), Verb("d"),
    LitItem("]: "), Verb("s"), LitItem("\n")>>

\* PlainObjFormat without its second line: the plain branch as it would be
\* had it printed the fields' JSON nowhere.
PlainObjFormatOneLine == PlainFormat

\* "%s in [%s:%d]: %s\n%s\n"
PlainObjFormat == PlainFormat \o <<Verb("s"), LitItem("\n")>>

\* "%s in [%s:%d]:\n%s\n"
PlainJsonFormat ==
  <<Verb("s"), LitItem(" in ["), Verb("s"), LitItem(":"), Verb("d"),
    LitItem("]:\n"), Verb("s"), LitItem("\n")>>

\* "log entry exeed max size of %d bytes: %.100000s"
GuardFormat ==
  <<LitItem("log entry exeed max size of "), Verb("d"), LitItem(" bytes: "),
    VerbPrec("s", excerptPrecision)>>

\* "got error %v when marshaling %+v\n"
MarshalErrFormat ==
  <<LitItem("got error "), Verb("v"), LitItem(" when marshaling "),
    Verb("v"), LitItem("\n")>>

\* The error json.Marshal answers for a chan.
UnsupportedType == ErrVal(Str("json: unsupported type: chan int"))

PlainArgs(severety, file, line, message) ==
  <<StrVal(Str(severety)), StrVal(Str(file)), IntVal(Str(Itoa(line))),
    StrVal(message)>>

SourceLocation(c, file, omitempty) ==
  StructVal(<<Member("file", StrVal(Str(file)), omitempty),
              Member("line", StrVal(Str(Itoa(c.line))), omitempty),
              Member("function", StrVal(Str(FuncName(c.fn))), omitempty)>>)

ServiceContext(env) ==
  IF env # "" THEN StructVal(<<Member("service", StrVal(Str(env)), FALSE)>>)
  ELSE NilVal

\* The stream writeLog starts from: output := os.Stderr
InitialOutput == "stderr"

\* The frames Errorf adds when the size guard calls it from line `line`.
GuardStack(stack, line) ==
  SubSeq(stack, 1, Len(stack) - 1)
  \o <<Frame("writeLog", LibFile, line), Frame("Errorf", LibFile, 0),
       Frame("writeLog", LibFile, 0)>>

\* if len(j) >= maxSize
Oversized(j) == ByteLen(j) >= maxSize

\* The tail of writeLog: the marshalled payload is written, or replaced.
Guard(doc, output, severety, message, c, hp, stack, line) ==
  LET j == Marshal(doc)
  IN IF j.err THEN Result(<<>>, hp, "panic", NoInv)
     ELSE IF Oversized(j.text)
          THEN Result(<<>>, hp, "Errorf",
                 [severety |-> "ERROR",
                  message |-> Sprintf(GuardFormat,
                                <<IntVal(Str(Itoa(maxSize))),
                                  BytesVal(j.text)>>),
                  stack |-> GuardStack(stack, line)])
          ELSE Result(<<Line(output, "json", severety, message, doc, c,
                             Cat(j.text, Str("\n")))>>,
                      hp, "return", NoInv)

\* messageType: &errorMessageType for the error severities, else nil
MessageType(severety) ==
  IF severety \in ErrorSeverities THEN StrVal(Str(errorMessageType))
  ELSE NilVal

\* src/main.go: writeLog(severety, message, obj)
writeLogMain(lg, env, prefix, severety, message, obj, stack) ==
  LET c == Caller(stack, 2)
      file == relative(c.file, prefix)
      isError == severety \in ErrorSeverities
      output == IF isError THEN "stderr" ELSE InitialOutput
  IN IF lg.nil
     THEN IF obj # NilVal
          THEN LET j == Marshal(obj)
               IN Result(<<Line(InitialOutput, "plain", severety, message,
                                obj, c,
                                Sprintf(PlainObjFormat,
                                  PlainArgs(severety, file, c.line, message)
                                  \o <<BytesVal(j.text)>>))>>,
                         <<>>, "return", NoInv)
          ELSE Result(<<Line(InitialOutput, "plain", severety, message,
                             NilVal, c,
                             Sprintf(PlainFormat,
                               PlainArgs(severety, file, c.line, message)))>>,
                      <<>>, "return", NoInv)
     ELSE Guard(StructVal(<<
                  Member("message", StrVal(message), FALSE),
                  Member("jsonPayload", IfaceVal(obj), TRUE),
                  Member("severity", StrVal(Str(severety)), FALSE),
                  Member("timestamp", Now, FALSE),
                  Member("logging.googleapis.com/sourceLocation",
                         SourceLocation(c, file, FALSE), FALSE),
                  Member("@type", MessageType(severety), TRUE),
                  Member("serviceContext", ServiceContext(env), TRUE)>>),
                output, severety, message, c, <<>>, stack, 221)

(***************************************************************************)
(* src/unnamed/part_000: Field values.  heap[p] is the Field at address p. *)
(***************************************************************************)
\* The keys of a map in the order json writes them (byte order).
KeyOrder == <<"_message_", "code", "message">>

RECURSIVE Reverse(_)
Reverse(q) == IF q = <<>> THEN <<>> ELSE Append(Reverse(Tail(q)), q[1])

\* extractFields collecting from the last operand to the first.
extractFieldsBackwards(inputs) ==
  [cleanInputs |-> Reverse(SelectSeq(inputs, LAMBDA x : x.t # "field")),
   fields |-> Reverse(SelectSeq(inputs, LAMBDA x : x.t = "field"))]

\* extractFields: the *Field operands apart from the others, each in order.
extractFields(inputs) ==
  [cleanInputs |-> SelectSeq(inputs, LAMBDA x : x.t # "field"),
   fields |-> SelectSeq(inputs, LAMBDA x : x.t = "field")]

\* PayloadKey without the rename: the loop as it would be had it stored
\* every field under its own key.
PayloadKeyKept(key) == key

\* The key the loop over fields stores a field under.
PayloadKey(key) == IF key = "message" THEN "_message_" ELSE key

\* The loop over fields: each Field's Key is rewritten in place, and the map
\* takes Key -> Value, a later field replacing an earlier one.
RECURSIVE PayloadLoop(_, _, _, _)
PayloadLoop(fields, i, hp, m) ==
  IF i > Len(fields) THEN [heap |-> hp, jPayload |-> m]
  ELSE LET p == fields[i].p
           key == PayloadKey(hp[p].Key)
           hp2 == [hp EXCEPT ![p].Key = key]
       IN PayloadLoop(fields, i + 1, hp2,
            [k \in DOMAIN m \cup {key} |->
               IF k = key THEN hp2[p].Value ELSE m[k]])

MapOf(m) ==
  MapVal([i \in 1..Len(SelectSeq(KeyOrder, LAMBDA k : k \in DOMAIN m)) |->
            LET k == SelectSeq(KeyOrder, LAMBDA x : x \in DOMAIN m)[i]
            IN Member(k, IfaceVal(m[k]), FALSE)])

\* json's rendering of a []*Field
FieldArray(fields, hp) ==
  ArrayVal([i \in 1..Len(fields) |->
              StructVal(<<Member("Key", StrVal(Str(hp[fields[i].p].Key)),
                                 FALSE),
                          Member("Value", IfaceVal(hp[fields[i].p].Value),
                                 FALSE)>>)])

\* src/unnamed/part_000: writeLog(severety, message, fields)
writeLogFields(lg, env, prefix, hp, severety, message, fields, stack) ==
  LET c == Caller(stack, 2)
      file == relative(c.file, prefix)
      isError == severety \in ErrorSeverities
      output == IF isError THEN "stderr" ELSE InitialOutput
  IN IF lg.nil
     THEN IF Len(fields) > 0
          THEN LET doc == FieldArray(fields, hp)
                   j == Marshal(doc)
               IN Result(<<Line(InitialOutput, "plain", severety, message,
                                doc, c,
                                Sprintf(PlainObjFormat,
                                  PlainArgs(severety, file, c.line, message)
                                  \o <<BytesVal(j.text)>>))>>,
                         hp, "return", NoInv)
          ELSE Result(<<Line(InitialOutput, "plain", severety, message,
                             NilVal, c,
                             Sprintf(PlainFormat,
                               PlainArgs(severety, file, c.line, message)))>>,
                      hp, "return", NoInv)
     ELSE LET loop == PayloadLoop(fields, 1, hp, <<>>)
          IN Guard(StructVal(<<
                  Member("message", StrVal(message), FALSE),
                  Member("jsonPayload", MapOf(loop.jPayload), TRUE),
                  Member("severity", StrVal(Str(severety)), FALSE),
                  Member("timestamp", Now, FALSE),
                  Member("logging.googleapis.com/sourceLocation",
                         SourceLocation(c, file, FALSE), FALSE),
                  Member("@type", MessageType(severety), TRUE),
                  Member("serviceContext", ServiceContext(env), TRUE)>>),
                output, severety, message, c, loop.heap, stack, 222)

(***************************************************************************)
(* src/unnamed/part_001: writeLog, writeJson and objToJson of the two      *)
(* revisions without size guard.  Both print to os.Stdout.  The timestamp  *)
(* member's tag lacks its closing quote, so json names it "Timestamp".     *)
(***************************************************************************)
PayloadEarly(ver0, lg, severety, text, jsonText, c) ==
  StructVal(
    (IF ver0 = "cloud"
     THEN <<Member("logName", StrVal(lg.logName), FALSE)>> ELSE <<>>)
    \o <<Member("message", StrVal(text), TRUE),
         Member("jsonPayload", StrVal(jsonText), TRUE)>>
    \o (IF ver0 = "cloud"
        THEN <<Member("resource", lg.resource, FALSE)>> ELSE <<>>)
    \o <<Member("severity", StrVal(Str(severety)), FALSE),
         Member("Timestamp", Now, FALSE),
         Member("sourceLocation", SourceLocation(c, c.file, ver0 = "cloud"),
                TRUE)>>)

\* json.NewEncoder(os.Stdout).Encode(payload)
Encode(doc, severety, message, c) ==
  LET j == Marshal(doc)
  IN IF j.err THEN Result(<<>>, <<>>, "panic", NoInv)
     ELSE Result(<<Line("stdout", "json", severety, message, doc, c,
                        Cat(j.text, Str("\n")))>>,
                 <<>>, "return", NoInv)

\* part_001: writeLog(severety, message)
writeLogEarly(ver0, lg, severety, message, stack) ==
  LET c == Caller(stack, 2)
  IN IF lg.nil
     THEN Result(<<Line("stdout", "plain", severety, message, NilVal, c,
                        Sprintf(PlainFormat,
                          PlainArgs(severety, c.file, c.line, message)))>>,
                 <<>>, "return", NoInv)
     ELSE Encode(PayloadEarly(ver0, lg, severety, message, <<>>, c),
                 severety, message, c)

\* part_001: writeJson(severety, jsonBytes)
writeJson(ver0, lg, severety, jsonBytes, stack) ==
  LET c == Caller(stack, 2)
  IN IF lg.nil
     THEN Result(<<Line("stdout", "plain", severety, <<>>,
                        StrVal(jsonBytes), c,
                        Sprintf(PlainJsonFormat,
                          PlainArgs(severety, c.file, c.line, jsonBytes)))>>,
                 <<>>, "return", NoInv)
     ELSE Encode(PayloadEarly(ver0, lg, severety, <<>>, jsonBytes, c),
                 severety, <<>>, c)

\* The line objToJson calls Criticalf on.
ObjToJsonLine(ver0) == IF ver0 = "cloud" THEN 132 ELSE 446

\* part_001: objToJson(obj).  On a marshal error it logs through Criticalf
\* and answers no bytes; `lines` is what that logging wrote.
objToJson(ver0, lg, obj, stack) ==
  LET j == Marshal(obj)
  IN IF j.err
     THEN LET r == writeLogEarly(ver0, lg, "CRITICAL",
                     Sprintf(MarshalErrFormat, <<UnsupportedType, obj>>),
                     SubSeq(stack, 1, Len(stack) - 1)
                     \o <<Frame("objToJson", LibFile, ObjToJsonLine(ver0)),
                          Frame("Criticalf", LibFile, 0),
                          Frame("writeLog", LibFile, 0)>>)
          IN [b |-> <<>>, lines |-> r.lines, next |-> r.next]
     ELSE [b |-> j.text, lines |-> <<>>, next |-> "return"]

(***************************************************************************)
(* The operands a program passes.                                          *)
(***************************************************************************)
MaxFields == 2

\* How deep the size guard may nest before the goroutine's stack (or the
\* heap holding one excerpt per level) is exhausted.
MaxDepth == 3

ValA == StrVal(Str("a"))
ValB == StrVal(Str("b"))

\* Messages far over the limit: plain text, backslashes (json writes two
\* bytes for each), and three-byte runes.
BigPlain == StrVal(Run("x", 110000))
BigBackslash == StrVal(Run("\\", 60000))
BigRunes == StrVal(WideRun(40000))

DisplayLists ==
  {<<>>, <<ValA>>, <<ValA, ValB>>, <<ValB, ValA>>,
   <<StrVal(Str(" a ")), IntVal(Str("1"))>>,
   <<IntVal(Str("1")), IntVal(Str("2"))>>,
   <<BigPlain>>, <<BigBackslash>>, <<BigRunes>>}

\* Operand lists that mix display values with *Field values.
FieldLists(hp) ==
  LET P == {FieldPtr(p) : p \in 1..Len(hp)}
      pairs == {x \in P \X P : x[1] # x[2]}
  IN UNION {{<<p>>, <<ValA, p>>, <<BigPlain, p>>} : p \in P}
     \cup UNION {{<<x[1], x[2]>>, <<x[1], ValB, x[2], ValA>>} : x \in pairs}

ArgLists(v0, hp) ==
  DisplayLists \cup (IF v0 = "fields" THEN FieldLists(hp) ELSE {})

\* "%s-%s" and "Hello %"
Formats ==
  {<<Verb("s"), LitItem("-"), Verb("s")>>,
   <<LitItem("Hello "), NoVerb>>}

Objects ==
  {NilVal, IntVal(Str("5")), ChanVal, BigPlain,
   StructVal(<<Member("code", IntVal(Str("500")), FALSE)>>)}

FieldKeys == {"message", "code"}

\* The value of the Field made at address p: 501, 502, ...
FieldValues(p) == {IntVal(Str(Itoa(500 + p)))}

\* The values of K_SERVICE a program is started with.  writeLog reads it
\* only on a logger that is not nil, and part_001 never does; the text that
\* reads it is the same in src/main.go and part_000, and the unset variable
\* is explored under the former.
KServiceValues(v0) == IF v0 = "main" THEN {"", "svc"} ELSE {"svc"}

\* The stack on entry to writeLog (or writeJson, objToJson) from a public
\* method called by the program.
EntryStack(method, callee) ==
  <<UserFrame, Frame(method, LibFile, 0), Frame(callee, LibFile, 0)>>

\* A message that makes the structured record of this call exactly n bytes:
\* the record with an empty message is measured and padded with plain text.
PadTo(emptyResult, n) ==
  IF emptyResult.next = "return" /\ emptyResult.lines # <<>>
  THEN {StrVal(Run("x", n - (ByteLen(emptyResult.lines[1].text) - 1)))}
  ELSE {}

(***************************************************************************)
(* Init and the actions.                                                   *)
(***************************************************************************)
Init ==
  /\ ver \in Versions
  /\ l = NilLogger
  /\ kService \in KServiceValues(ver)
  /\ prefixPath = ""
  /\ heap = <<>>
  /\ pc = "idle"
  /\ inv = NoInv
  /\ call = NoCall
  /\ written = <<>>
  /\ ctor = NoCtor

\* The functions of the program that call a constructor.  setPrefixPath is
\* the same in src/main.go and part_000, and the call from a second package
\* is explored under the former.
CtorCallers(v0) == IF v0 = "main" THEN {UserFrame, PkgFrame} ELSE {UserFrame}

\* The stack inside setPrefixPath when `caller` calls the constructor.
CtorStack(name, caller) ==
  <<caller, Frame(name, LibFile, 0), Frame("setPrefixPath", LibFile, 0)>>

StructuredLogger(caller) ==
  /\ pc = "idle"
  /\ ver \in {"main", "fields", "early"}
  /\ l' = StructLogger
  /\ prefixPath' = IF ver \in Guarded
                   THEN setPrefixPath(CtorStack("StructuredLogger", caller))
                   ELSE prefixPath
  /\ ctor' = [name |-> "StructuredLogger", fetched |-> <<>>, status |-> <<>>, err |-> FALSE]
  /\ UNCHANGED <<ver, kService, heap, pc, inv, call, written>>

PlainLogger(caller) ==
  /\ pc = "idle"
  /\ ver \in {"main", "fields", "early"}
  /\ l' = NilLogger
  /\ prefixPath' = IF ver \in Guarded
                   THEN setPrefixPath(CtorStack("PlainLogger", caller))
                   ELSE prefixPath
  /\ ctor' = [name |-> "PlainLogger", fetched |-> <<>>, status |-> <<>>, err |-> FALSE]
  /\ UNCHANGED <<ver, kService, heap, pc, inv, call, written>>

\* "projects/%s/logs/run.googleapis.com%%2F%s"
LogNameFormat ==
  <<LitItem("projects/"),
    Verb("s"),
    LitItem("/logs/run.googleapis.com%2F"),
    Verb("s")>>

Resource(projectID, serviceName, revisionName, region, configurationName) ==
  StructVal(<<
    Member("labels",
      StructVal(<<Member("project_id", StrVal(projectID), FALSE),
                  Member("service_name", StrVal(serviceName), FALSE),
                  Member("revision_name", StrVal(revisionName), FALSE),
                  Member("location", StrVal(region), FALSE),
                  Member("configuration_name", StrVal(configurationName),
                         FALSE)>>), FALSE),
    Member("type",
      StrVal(Str("cloud_run_revision")),
      FALSE)>>)

\* What client.Do and ioutil.ReadAll can meet: no response at all (err), a
\* 200 response whose body is the value, or a response with another status
\* (404 for a path the server does not have) whose body is an error page.
Replies(value) ==
  {[err |-> TRUE, status |-> 0, body |-> <<>>],
   [err |-> FALSE, status |-> 200, body |-> Str(value)],
   [err |-> FALSE, status |-> 404, body |-> Str("Not Found\n")]}

\* getMetadata: the body of the response whatever its status, or the error
\* of client.Do / ioutil.ReadAll.
getMetadata(subPath, reply) ==
  IF reply.err THEN [s |-> <<>>, err |-> TRUE]
  ELSE [s |-> reply.body, err |-> FALSE]

\* CloudRunLogger: projectReply and regionReply are what the metadata server
\* answers to the two getMetadata calls.  ctor keeps the paths fetched, in
\* order, and the status of each response (0: none).
CloudRunLogger(projectReply, regionReply) ==
  /\ pc = "idle"
  /\ ver = "cloud"
  /\ LET project == getMetadata("/project/project-id", projectReply)
         region == getMetadata("/instance/region", regionReply)
         serviceName == Str("svc")
     IN IF project.err
        THEN /\ l' = NilLogger
             /\ ctor' = [name |-> "CloudRunLogger",
                         fetched |-> <<"/project/project-id">>,
                         status |-> <<projectReply.status>>, err |-> TRUE]
        ELSE IF region.err
        THEN /\ l' = NilLogger
             /\ ctor' = [name |-> "CloudRunLogger",
                         fetched |-> <<"/project/project-id",
                                       "/instance/region">>,
                         status |-> <<projectReply.status,
                                      regionReply.status>>, err |-> TRUE]
        ELSE /\ l' = [nil |-> FALSE,
                      logName |-> Sprintf(LogNameFormat,
                                    <<StrVal(project.s), StrVal(serviceName)>>),
                      resource |-> Resource(project.s, serviceName,
                                     Str("rev"), region.s,
                                     Str("cfg"))]
             /\ ctor' = [name |-> "CloudRunLogger",
                         fetched |-> <<"/project/project-id",
                                       "/instance/region">>,
                         status |-> <<projectReply.status,
                                      regionReply.status>>, err |-> FALSE]
  /\ UNCHANGED <<ver, kService, prefixPath, heap, pc, inv, call, written>>

LocalLogger ==
  /\ pc = "idle"
  /\ ver = "cloud"
  /\ l' = NilLogger
  /\ ctor' = [name |-> "LocalLogger", fetched |-> <<>>, status |-> <<>>, err |-> FALSE]
  /\ UNCHANGED <<ver, kService, prefixPath, heap, pc, inv, call, written>>

\* Logger.Field(key, field): a new Field, at the next address.
Field(key, value) ==
  /\ pc = "idle"
  /\ ver = "fields"
  /\ Len(heap) < MaxFields
  /\ heap' = Append(heap, [Key |-> key, Value |-> value])
  /\ UNCHANGED <<ver, l, kService, prefixPath, pc, inv, call, written, ctor>>

(***************************************************************************)
(* The public emission methods.  Debug .. Emergency differ only in the     *)
(* severity they pass, likewise Debugf .. Emergencyf and Debugj ..         *)
(* Emergencyj: sev is the method's severity.                               *)
(***************************************************************************)
\* src/main.go: Debug(v ...interface{}) .. Emergency
LogMain(lg, env, prefix, sev, v) ==
  writeLogMain(lg, env, prefix, sev, TrimSpace(Sprintln(v)), NilVal,
               EntryStack("Log", "writeLog"))

\* src/main.go: Debugf(format, v ...interface{}) .. Emergencyf
LogfMain(lg, env, prefix, sev, format, v) ==
  writeLogMain(lg, env, prefix, sev, Sprintf(format, v), NilVal,
               EntryStack("Logf", "writeLog"))

\* src/main.go: Debugj(message, obj) .. Emergencyj
LogjMain(lg, env, prefix, sev, message, obj) ==
  writeLogMain(lg, env, prefix, sev, message, obj,
               EntryStack("Logj", "writeLog"))

\* part_000: Debug(v ...interface{}) .. Emergency
LogFields(lg, env, prefix, hp, sev, v) ==
  LET e == extractFields(v)
  IN writeLogFields(lg, env, prefix, hp, sev,
                    TrimSpace(Sprintln(e.cleanInputs)), e.fields,
                    EntryStack("Log", "writeLog"))

\* part_000: Debugf(format, v ...interface{}) .. Emergencyf
LogfFields(lg, env, prefix, hp, sev, format, v) ==
  LET e == extractFields(v)
  IN writeLogFields(lg, env, prefix, hp, sev,
                    Sprintf(format, e.cleanInputs), e.fields,
                    EntryStack("Logf", "writeLog"))

\* part_001: Debug(v ...interface{}) .. Emergency
LogEarly(v0, lg, sev, v) ==
  writeLogEarly(v0, lg, sev, Sprint(v), EntryStack("Log", "writeLog"))

\* part_001: Debugf(format, v ...interface{}) .. Emergencyf
LogfEarly(v0, lg, sev, format, v) ==
  writeLogEarly(v0, lg, sev, Sprintf(format, v),
                EntryStack("Logf", "writeLog"))

\* part_001: Debugj(obj) .. Emergencyj: l.writeJson(sev, l.objToJson(obj))
LogjEarly(v0, lg, sev, obj) ==
  LET o == objToJson(v0, lg, obj, EntryStack("Logj", "objToJson"))
  IN IF o.next = "panic" THEN Result(o.lines, <<>>, "panic", NoInv)
     ELSE LET w == writeJson(v0, lg, sev, o.b, EntryStack("Logj", "writeJson"))
          IN Result(o.lines \o w.lines, <<>>, w.next, NoInv)

\* How many times the size guard has called Errorf on this stack.
Depth(stack) == (Len(stack) - 3) \div 2

\* The state a public call leaves, from what its writeLog answered.
Finish(c, r) ==
  /\ call' = [c EXCEPT !.oversized = (r.next = "Errorf")]
  /\ written' = r.lines
  /\ heap' = IF ver = "fields" THEN r.heap ELSE heap
  /\ pc' = CASE r.next = "return" -> "returned"
             [] r.next = "panic" -> "panicked"
             [] OTHER -> "Errorf"
  /\ inv' = r.inv
  /\ UNCHANGED <<ver, l, kService, prefixPath, ctor>>

Unformatted(sev, v) ==
  CASE ver = "main" -> LogMain(l, kService, prefixPath, sev, v)
    [] ver = "fields" -> LogFields(l, kService, prefixPath, heap, sev, v)
    [] OTHER -> LogEarly(ver, l, sev, v)

\* Messages that put the structured record of Log(sev, m) just under and
\* exactly at maxSize bytes.
EdgeLists(sev) ==
  IF ver \in Guarded /\ ~l.nil
  THEN LET empty == Unformatted(sev, <<StrVal(<<>>)>>)
       IN {<<m>> : m \in PadTo(empty, maxSize - 1) \cup PadTo(empty, maxSize)}
  ELSE {}

Log(sev, v) ==
  /\ pc = "idle"
  /\ Finish([op |-> "Log", sev |-> sev, format |-> <<>>, v |-> v,
             message |-> <<>>, obj |-> NilVal, heap |-> heap,
             oversized |-> FALSE],
            Unformatted(sev, v))

Logf(sev, format, v) ==
  /\ pc = "idle"
  /\ Finish([op |-> "Logf", sev |-> sev, format |-> format, v |-> v,
             message |-> <<>>, obj |-> NilVal, heap |-> heap,
             oversized |-> FALSE],
            CASE ver = "main" ->
                   LogfMain(l, kService, prefixPath, sev, format, v)
              [] ver = "fields" ->
                   LogfFields(l, kService, prefixPath, heap, sev, format, v)
              [] OTHER -> LogfEarly(ver, l, sev, format, v))

Logj(sev, message, obj) ==
  /\ pc = "idle"
  /\ ver # "fields"
  /\ Finish([op |-> "Logj", sev |-> sev, format |-> <<>>, v |-> <<>>,
             message |-> IF ver = "main" THEN message ELSE <<>>,
             obj |-> obj, heap |-> heap, oversized |-> FALSE],
            IF ver = "main"
            THEN LogjMain(l, kService, prefixPath, sev, message, obj)
            ELSE LogjEarly(ver, l, sev, obj))

\* The size guard's l.Errorf(...): Errorf calls writeLog again.  When the
\* substitute record is oversized too, that writeLog calls Errorf in turn;
\* past MaxDepth the program dies of it.
GuardErrorf ==
  /\ pc = "Errorf"
  /\ LET r == IF ver = "main"
              THEN writeLogMain(l, kService, prefixPath, inv.severety,
                                inv.message, NilVal, inv.stack)
              ELSE writeLogFields(l, kService, prefixPath, heap,
                                  inv.severety, inv.message, <<>>, inv.stack)
     IN /\ written' = written \o r.lines
        /\ IF r.next = "Errorf" /\ Depth(r.inv.stack) > MaxDepth
           THEN pc' = "overflow" /\ inv' = inv
           ELSE /\ pc' = CASE r.next = "return" -> "returned"
                           [] r.next = "panic" -> "panicked"
                           [] OTHER -> "Errorf"
                /\ inv' = r.inv
  /\ UNCHANGED <<ver, l, kService, prefixPath, heap, call, ctor>>

\* The public method has returned and the program goes on: the record of
\* the call is dropped, the logger, the prefix and the Fields stay.
Return ==
  /\ pc = "returned"
  /\ pc' = "idle"
  /\ call' = NoCall
  /\ written' = <<>>
  /\ inv' = NoInv
  /\ UNCHANGED <<ver, l, kService, prefixPath, heap, ctor>>

Next ==
  \/ \E caller \in CtorCallers(ver) : StructuredLogger(caller)
  \/ \E caller \in CtorCallers(ver) : PlainLogger(caller)
  \/ \E projectReply \in Replies("prj") : \E regionReply \in Replies("eu") :
       CloudRunLogger(projectReply, regionReply)
  \/ LocalLogger
  \/ \E key \in FieldKeys : \E value \in FieldValues(Len(heap) + 1) :
       Field(key, value)
  \/ /\ pc = "idle"
     /\ \E sev \in MethodSeverities :
          \E v \in ArgLists(ver, heap) \cup EdgeLists(sev) : Log(sev, v)
  \/ /\ pc = "idle"
     /\ \E sev \in MethodSeverities : \E format \in Formats :
          \E v \in ArgLists(ver, heap) : Logf(sev, format, v)
  \/ /\ pc = "idle"
     /\ \E sev \in MethodSeverities : \E obj \in Objects :
          Logj(sev, Str("m"), obj)
  \/ GuardErrorf
  \/ Return

Spec == Init /\ [][Next]_vars

(***************************************************************************)
(* relative() over many paths.  A program built from src/main.go whose     *)
(* constructor calls and Info("a") calls come from functions in the files  *)
(* of RelFiles: every prefix setPrefixPath can capture from them meets     *)
(* every path writeLog can hand to relative.                               *)
(***************************************************************************)
RelFiles ==
  {"/app/main.go", "/app/db.go", "/app/db/db.go", "/app/db/sql/q.go",
   "/application/main.go", "/srv/app/main.go", "/main.go", "/go/src/x.go",
   "app/main.go", "main.go", LibFile}

RelCallers == {Frame("main.main", f, 10) : f \in RelFiles}

RelInit ==
  /\ ver = "main"
  /\ l = NilLogger
  /\ kService = "svc"
  /\ prefixPath = ""
  /\ heap = <<>>
  /\ pc = "idle"
  /\ inv = NoInv
  /\ call = NoCall
  /\ written = <<>>
  /\ ctor = NoCtor

\* log.Info("a") called by `caller`
RelInfo(caller) ==
  /\ pc = "idle"
  /\ Finish([op |-> "Log", sev |-> "INFO", format |-> <<>>, v |-> <<ValA>>,
             message |-> <<>>, obj |-> NilVal, heap |-> heap,
             oversized |-> FALSE],
            writeLogMain(l, kService, prefixPath, "INFO",
                         TrimSpace(Sprintln(<<ValA>>)), NilVal,
                         <<caller, Frame("Log", LibFile, 0),
                           Frame("writeLog", LibFile, 0)>>))

RelNext ==
  \/ \E caller \in RelCallers : StructuredLogger(caller)
  \/ \E caller \in RelCallers : PlainLogger(caller)
  \/ \E caller \in RelCallers : RelInfo(caller)
  \/ Return

RelSpec == RelInit /\ [][RelNext]_vars

(***************************************************************************)
(* Properties.  They speak of a public call through `call` (what was       *)
(* called, with what) and `written` (the lines it has written so far).     *)
(***************************************************************************)
\* The call in progress has ended: it returned, or the process died in it.
Ended == pc \in {"returned", "panicked", "overflow"}

\* The operands of a call that are *Field values, and the others.
FieldArgs(v) == SelectSeq(v, LAMBDA x : x.t = "field")
NonFields(v) == SelectSeq(v, LAMBDA x : x.t # "field")

\* The members json writes for a line's record, and those of its payload.
MembersOf(line) ==
  IF line.form = "json" /\ line.doc.t = "struct" THEN Emitted(line.doc.m)
  ELSE <<>>

HasMember(line, k) == \E i \in DOMAIN MembersOf(line) : MembersOf(line)[i].key = k

PayloadOf(line) ==
  LET ms == SelectSeq(MembersOf(line), LAMBDA x : x.key = "jsonPayload")
  IN IF ms # <<>> /\ ms[1].val.t = "map" THEN ms[1].val.m ELSE <<>>

\* C1: every line a call writes goes to the error stream when its severity
\* is ERROR, CRITICAL, ALERT or EMERGENCY, and to standard output otherwise.
C1_RoutedBySeverity ==
  \A i \in DOMAIN written :
    written[i].stream =
      IF written[i].severity \in ErrorSeverities THEN "stderr" ELSE "stdout"

\* "log entry exeed max size of 102400 bytes: "
GuardPrefix == "log entry exeed max size of " \o Itoa(maxSize) \o " bytes: "

\* C2: under the revisions that have the size guard, no record of maxSize
\* bytes or more is ever written, and a structured call whose record
\* serializes to maxSize bytes or more ends having written, in its place,
\* one ERROR record whose message is the guard's text followed by at most
\* excerptPrecision characters.
C2_OversizedReplaced ==
  /\ ver \in Guarded =>
       \A i \in DOMAIN written :
         written[i].form = "json" => ByteLen(written[i].text) - 1 < maxSize
  /\ (ver \in Guarded /\ ~l.nil /\ Ended /\ call.oversized) =>
       /\ Len(written) = 1
       /\ written[1].severity = "ERROR"
       /\ Flat(TakeRunes(written[1].message, Len(GuardPrefix))) = GuardPrefix
       /\ RuneLen(written[1].message) <= Len(GuardPrefix) + excerptPrecision

\* C3: the size guard calls Errorf at most once per public call: the record
\* Errorf builds from the excerpt is under maxSize, so its writeLog writes
\* it and the call returns.
C3_GuardNotReentrant ==
  /\ pc = "Errorf" => Depth(inv.stack) <= 1
  /\ pc # "overflow"

\* C4: a public call that has returned has written exactly one record.
C4_ExactlyOneRecord == pc = "returned" => Len(written) = 1

\* C5: a call whose object json cannot marshal ends in a panic, having
\* written nothing.
C5_MarshalFailureFatal ==
  (call.op = "Logj" /\ call.obj = ChanVal /\ pc # "idle") =>
    (pc = "panicked" /\ written = <<>>)

\* C6: the unformatted call with the operands "a" and "b" writes a record
\* whose message is "a b".
C6_MessageJoinedBySpaces ==
  (call.op = "Log" /\ call.v = <<ValA, ValB>> /\ pc = "returned") =>
    (written # <<>> /\ Flat(written[1].message) = "a b")

\* C8: a structured record carries the "@type" member exactly when its
\* severity is ERROR, CRITICAL, ALERT or EMERGENCY.
C8_TypeIffError ==
  \A i \in DOMAIN written :
    written[i].form = "json" =>
      (HasMember(written[i], "@type") <=>
         written[i].severity \in ErrorSeverities)

\* The key a payload shows a field under, as the claims state it.
Renamed(key) == IF key = "message" THEN "_message_" ELSE key

\* The message a call builds from its display operands.
BuiltMessage ==
  CASE call.op = "Log" ->
         IF ver \in Guarded THEN TrimSpace(Sprintln(NonFields(call.v)))
         ELSE Sprint(call.v)
    [] call.op = "Logf" -> Sprintf(call.format, NonFields(call.v))
    [] OTHER -> call.message

\* A call of the revision with Fields, on a structured logger, has returned
\* having written its own record (not the size guard's substitute).
StructuredFieldsCall ==
  /\ ver = "fields"
  /\ ~l.nil
  /\ pc = "returned"
  /\ ~call.oversized
  /\ Len(written) = 1

KeyOf(f) == call.heap[f.p].Key
ValueOf(f) == call.heap[f.p].Value

\* C7 as claimed: every field keyed "message" is in the payload under
\* "_message_" with its own value, and the record's message is the built one.
C7_MessageFieldOwnValue ==
  StructuredFieldsCall =>
    /\ written[1].message = BuiltMessage
    /\ \A i \in DOMAIN FieldArgs(call.v) :
         KeyOf(FieldArgs(call.v)[i]) = "message" =>
           \E j \in DOMAIN PayloadOf(written[1]) :
             /\ PayloadOf(written[1])[j].key = "_message_"
             /\ PayloadOf(written[1])[j].val = IfaceVal(ValueOf(FieldArgs(call.v)[i]))

\* C7: the payload has no key "message"; when a field is keyed "message"
\* the payload has the key "_message_", holding the value of the last field
\* of the call keyed "message" or "_message_"; the record's message is the
\* message built from the display operands.
C7_MessageFieldRenamed ==
  StructuredFieldsCall =>
    LET fs == FieldArgs(call.v)
        payload == PayloadOf(written[1])
    IN /\ written[1].message = BuiltMessage
       /\ MembersOf(written[1])[1] = Member("message", StrVal(BuiltMessage), FALSE)
       /\ \A j \in DOMAIN payload : payload[j].key # "message"
       /\ \A i \in DOMAIN fs :
            KeyOf(fs[i]) = "message" =>
              \E j \in DOMAIN payload :
                /\ payload[j].key = "_message_"
                /\ \E k \in DOMAIN fs :
                     /\ KeyOf(fs[k]) \in {"message", "_message_"}
                     /\ \A k2 \in DOMAIN fs :
                          k2 > k => KeyOf(fs[k2]) \notin {"message", "_message_"}
                     /\ payload[j].val = IfaceVal(ValueOf(fs[k]))

\* Two fields keyed "message" went into one record, which shows the second.
C7_Witness ==
  /\ StructuredFieldsCall
  /\ call.v = <<FieldPtr(1), FieldPtr(2)>>
  /\ KeyOf(FieldPtr(1)) = "message"
  /\ KeyOf(FieldPtr(2)) = "message"
  /\ PayloadOf(written[1]) =
       <<Member("_message_", IfaceVal(ValueOf(FieldPtr(2))), FALSE)>>

\* A call of Debug .. Emergency or Debugf .. Emergencyf on a nil logger
\* has returned.
PlainCall ==
  /\ l.nil
  /\ call.op \in {"Log", "Logf"}
  /\ pc = "returned"
  /\ Len(written) = 1

\* "SEVERITY in [file:line]: message\n" for a written line
HumanLine(line) ==
  Sprintf(PlainFormat,
    PlainArgs(line.severity,
              IF ver \in Guarded THEN relative(line.loc.file, prefixPath)
              ELSE line.loc.file,
              line.loc.line, line.message))

FieldsJSON(fs) ==
  Marshal(ArrayVal([i \in DOMAIN fs |->
            StructVal(<<Member("Key", StrVal(Str(KeyOf(fs[i]))), FALSE),
                        Member("Value", IfaceVal(ValueOf(fs[i])), FALSE)>>)])).text

C10_FieldsNotFormatted ==
  (ver = "fields" /\ call.op = "Logf" /\ pc = "returned" /\ ~call.oversized) =>
    LET fs == FieldArgs(call.v)
        payload == PayloadOf(written[1])
    IN /\ Len(written) = 1
       /\ written[1].message = Sprintf(call.format, NonFields(call.v))
       /\ IF l.nil
          THEN written[1].doc =
                 IF fs = <<>> THEN NilVal
                 ELSE ArrayVal([i \in DOMAIN fs |->
                        StructVal(<<Member("Key", StrVal(Str(KeyOf(fs[i]))), FALSE),
                                    Member("Value", IfaceVal(ValueOf(fs[i])),
                                           FALSE)>>)])
          ELSE /\ \A i \in DOMAIN fs :
                    \E j \in DOMAIN payload : payload[j].key = Renamed(KeyOf(fs[i]))
               /\ \A j \in DOMAIN payload :
                    \E i \in DOMAIN fs :
                      /\ Renamed(KeyOf(fs[i])) = payload[j].key
                      /\ \A i2 \in DOMAIN fs :
                           i2 > i => Renamed(KeyOf(fs[i2])) # payload[j].key
                      /\ payload[j].val = IfaceVal(ValueOf(fs[i]))

\* Infof("%s-%s", f1, "b", f2, "a") on a structured logger, both fields
\* keyed "code": the message is "b-a" and the payload shows f2's value.
C10_Witness ==
  /\ ver = "fields"
  /\ ~l.nil
  /\ call.op = "Logf"
  /\ pc = "returned"
  /\ call.v = <<FieldPtr(1), ValB, FieldPtr(2), ValA>>
  /\ KeyOf(FieldPtr(1)) = "code"
  /\ KeyOf(FieldPtr(2)) = "code"
  /\ Len(written) = 1
  /\ Flat(written[1].message) = "b-a"
  /\ PayloadOf(written[1]) = <<Member("code", IfaceVal(ValueOf(FieldPtr(2))), FALSE)>>

(***************************************************************************)
(* C11.  The path prefix is captured once and then fixed: once a           *)
(* constructor (StructuredLogger or PlainLogger) has set prefixPath, no    *)
(* later step of the program, constructor call or emission, changes it.    *)
(* prefixPath is "" until a constructor has set it, and never after.       *)
(***************************************************************************)
C11_PrefixFixed == [][prefixPath # "" => prefixPath' = prefixPath]_vars

(***************************************************************************)
(* C12.  relative(path) is the path with the captured prefix removed when  *)
(* the path starts with the prefix, and the path unchanged otherwise; in   *)
(* the first case the prefix followed by the result is the path again.     *)
(* Read off what a call writes: the file its record reports for the frame  *)
(* runtime.Caller answered.                                                *)
(***************************************************************************)
\* The tails of a path, the empty one included.
Tails(path) == {SubSeq(path, k, Len(path)) : k \in 1..(Len(path) + 1)}

StartsWith(path, prefix) == \E r \in Tails(path) : prefix \o r = path

\* The file a line reports: in the head of a plain line, in the
\* sourceLocation of a structured record.
ReportsFile(line, file) ==
  IF line.form = "plain"
  THEN Flat(line.text) =
         line.severity \o " in [" \o file \o ":" \o Itoa(line.loc.line)
         \o "]: " \o Flat(line.message) \o "\n"
  ELSE \E i \in DOMAIN MembersOf(line) :
         /\ MembersOf(line)[i].key = "logging.googleapis.com/sourceLocation"
         /\ \E j \in DOMAIN MembersOf(line)[i].val.m :
              /\ MembersOf(line)[i].val.m[j].key = "file"
              /\ MembersOf(line)[i].val.m[j].val = StrVal(Str(file))

C12_RelativeStripsPrefix ==
  pc = "returned" =>
    \A i \in DOMAIN written :
      LET path == written[i].loc.file
      IN IF StartsWith(path, prefixPath)
         THEN \E r \in Tails(path) :
                prefixPath \o r = path /\ ReportsFile(written[i], r)
         ELSE ReportsFile(written[i], path)

\* A record whose file had the prefix of a constructor call, and lost it.
C12_Witness ==
  /\ pc = "returned"
  /\ prefixPath = "/app/"
  /\ written # <<>>
  /\ written[1].loc.file = "/app/main.go"
  /\ ReportsFile(written[1], "main.go")
  /\ ~ReportsFile(written[1], "/app/main.go")

(***************************************************************************)
(* C13.  CloudRunLogger returns a logger only when both metadata fetches   *)
(* (project ID, then region) succeeded: when a fetch fails, construction   *)
(* answers an error and no logger; each fetch is attempted at most once;   *)
(* the region is not fetched after a failed project-ID fetch.  A fetch     *)
(* succeeded when the server answered it with status 200.                  *)
(***************************************************************************)
FetchFailed(i) == ctor.status[i] # 200

C13_LoggerOnlyAfterBothFetches ==
  ctor.name = "CloudRunLogger" =>
    /\ (\E i \in DOMAIN ctor.status : FetchFailed(i)) => ctor.err /\ l.nil
    /\ ~ctor.err =>
         /\ ~l.nil
         /\ ctor.fetched = <<"/project/project-id", "/instance/region">>
    /\ \A i, j \in DOMAIN ctor.fetched :
         ctor.fetched[i] = ctor.fetched[j] => i = j
    /\ FetchFailed(1) => ctor.fetched = <<"/project/project-id">>

(***************************************************************************)
(* C14.  Every record written carries the source location (file, line,     *)
(* function) of the program's call of the public emission method, the      *)
(* substitute ERROR record of the size guard and the CRITICAL record of a  *)
(* failed marshal included; it is never a frame of the logger itself.      *)
(***************************************************************************)
C14_LocationIsCallSite ==
  \A i \in DOMAIN written :
    /\ written[i].loc = UserFrame
    /\ written[i].loc.file # LibFile

(***************************************************************************)
(* C15.  An emission leaves the caller's Field values unchanged: no step   *)
(* of the program changes the Key or the Value of a Field that exists, so  *)
(* every Field made by Field(key, value) keeps the key and the value it    *)
(* was made with, and shows the same key in every call it is reused in.    *)
(***************************************************************************)
C15_FieldsUnchanged ==
  [][\A p \in DOMAIN heap : p \in DOMAIN heap' /\ heap'[p] = heap[p]]_vars

====
